---------------------------- MODULE Spec2Model ----------------------------
(***************************************************************************)
(* The FFmpeg command validator of kortar (src/common/validators.py).      *)
(*                                                                         *)
(* A Python str is modelled as a sequence of one-character strings, so     *)
(* that startswith, the `in` test, replace, strip, lower, re.search,       *)
(* shlex.split and shlex.quote are computed character by character as      *)
(* the interpreter computes them.  Optional[str] is a sequence of at most  *)
(* one element: None is << >> and a message m is << m >>.                  *)
(***************************************************************************)
EXTENDS Integers, Sequences, FiniteSets, TLC

(***************************************************************************)
(* Bounds of the model.                                                    *)
(***************************************************************************)
\* the number of argument pieces that follow the tool name in a command
MaxArgs == 3

(***************************************************************************)
(* str methods.                                                            *)
(***************************************************************************)
\* the characters str.strip() removes and the regular expression's \s matches
Whitespace == {" ", "\t", "\n", "\r", "\f"}

LowerAlphabet == <<"a","b","c","d","e","f","g","h","i","j","k","l","m","n","o","p","q","r","s","t","u","v","w","x","y","z">>

UpperAlphabet == <<"A","B","C","D","E","F","G","H","I","J","K","L","M","N","O","P","Q","R","S","T","U","V","W","X","Y","Z">>

Digits == {"0","1","2","3","4","5","6","7","8","9"}

\* str.startswith
StartsWith(s, prefix) ==
    /\ Len(prefix) <= Len(s)
    /\ SubSeq(s, 1, Len(prefix)) = prefix

\* sub occurs in s at position k
OccursAt(s, k, sub) ==
    /\ k + Len(sub) - 1 <= Len(s)
    /\ SubSeq(s, k, k + Len(sub) - 1) = sub

\* the `in` operator on two str
Contains(s, sub) == \E k \in 1..(Len(s) - Len(sub) + 1) : OccursAt(s, k, sub)

\* str.find, 1-based; 0 when sub does not occur
Find(s, sub) ==
    IF Contains(s, sub)
    THEN CHOOSE k \in 1..(Len(s) - Len(sub) + 1) :
            /\ OccursAt(s, k, sub)
            /\ \A j \in 1..(k - 1) : ~OccursAt(s, j, sub)
    ELSE 0

\* str.replace(old, new, 1)
ReplaceFirst(s, old, new) ==
    LET k == Find(s, old)
    IN  IF k = 0 THEN s
        ELSE SubSeq(s, 1, k - 1) \o new \o SubSeq(s, k + Len(old), Len(s))

\* a strip of the left end only
StripLeft(s) ==
    LET keep == {i \in 1..Len(s) : s[i] \notin Whitespace}
    IN  IF keep = {} THEN << >>
        ELSE SubSeq(s, CHOOSE i \in keep : \A j \in keep : i <= j, Len(s))

\* str.strip()
Strip(s) ==
    LET keep == {i \in 1..Len(s) : s[i] \notin Whitespace}
    IN  IF keep = {} THEN << >>
        ELSE LET first == CHOOSE i \in keep : \A j \in keep : i <= j
                 last  == CHOOSE i \in keep : \A j \in keep : i >= j
             IN  SubSeq(s, first, last)

LowerChar(c) ==
    IF \E i \in 1..26 : UpperAlphabet[i] = c
    THEN LowerAlphabet[CHOOSE i \in 1..26 : UpperAlphabet[i] = c]
    ELSE c

\* str.lower()
Lower(s) == [i \in 1..Len(s) |-> LowerChar(s[i])]

RECURSIVE Join(_, _)
\* sep.join(parts)
Join(parts, sep) ==
    IF parts = << >> THEN << >>
    ELSE IF Len(parts) = 1 THEN parts[1]
    ELSE parts[1] \o sep \o Join(Tail(parts), sep)


(***************************************************************************)
(* re.search(r"-i\s+(-f\s+null|$|\s+-)", command)                          *)
(***************************************************************************)
\* positions from..to of s all hold whitespace
AllWhitespace(s, from, to) == \A j \in from..to : s[j] \in Whitespace

\* the group (-f\s+null|$|\s+-) matches at the start of rest; $ matches at the
\* end of the string and before a newline that ends it
GroupMatches(rest) ==
    \/ /\ StartsWith(rest, <<"-","f">>)
       /\ \E m \in 1..(Len(rest) - 2) :
            /\ AllWhitespace(rest, 3, 2 + m)
            /\ StartsWith(SubSeq(rest, 3 + m, Len(rest)), <<"n","u","l","l">>)
    \/ rest = << >>
    \/ rest = <<"\n">>
    \/ \E m \in 1..(Len(rest) - 1) :
            /\ AllWhitespace(rest, 1, m)
            /\ rest[m + 1] = "-"

\* the whole pattern matches somewhere in s: -i, then n >= 1 whitespace
\* characters (every n the backtracking matcher may settle on), then the group
MissingInputPattern(s) ==
    \E k \in 1..Len(s) :
        /\ OccursAt(s, k, <<"-","i">>)
        /\ \E n \in 1..(Len(s) - k - 1) :
            /\ AllWhitespace(s, k + 2, k + 1 + n)
            /\ GroupMatches(SubSeq(s, k + 2 + n, Len(s)))

(***************************************************************************)
(* shlex.split(s) and shlex.quote(s) of the standard library, as           *)
(* prepare_ffmpeg_test_command calls them (posix mode, whitespace_split,   *)
(* no comment characters).                                                 *)
(***************************************************************************)
ShlexWhitespace == {" ", "\t", "\r", "\n"}

ShlexQuotes == {"'", "\""}

\* the first position from i on whose character is in chars; Len(s) + 1 if none
NextIn(s, i, chars) ==
    LET hits == {j \in i..Len(s) : s[j] \in chars}
    IN  IF hits = {} THEN Len(s) + 1
        ELSE CHOOSE j \in hits : \A k \in hits : j <= k

\* the first position from i on whose character is not in chars
NextNotIn(s, i, chars) ==
    LET hits == {j \in i..Len(s) : s[j] \notin chars}
    IN  IF hits = {} THEN Len(s) + 1
        ELSE CHOOSE j \in hits : \A k \in hits : j <= k

RECURSIVE read_token(_, _, _, _, _, _)
\* shlex.read_token from position i of s: state is the lexer's state (" " between
\* tokens, "a" in a word, a quote character, "\\" after an escape), token the
\* token being read, quoted whether it had a quoted part.  A run of characters
\* that leaves the state as it is is read in one step.  The result tells
\* whether a token was read (has), the token, and the position to go on from;
\* ok = FALSE is the ValueError of an unclosed quotation or a trailing escape.
read_token(s, i, state, escapedstate, token, quoted) ==
    CASE state = " " ->
            LET j == NextNotIn(s, i, ShlexWhitespace)
            IN  CASE j > Len(s) ->
                        [ok |-> TRUE, has |-> FALSE, token |-> << >>, next |-> j]
                  [] s[j] = "\\" ->
                        read_token(s, j + 1, "\\", "a", token, quoted)
                  [] s[j] \in ShlexQuotes ->
                        read_token(s, j + 1, s[j], escapedstate, token, quoted)
                  [] OTHER ->
                        read_token(s, j + 1, "a", escapedstate, <<s[j]>>, quoted)
      [] state \in ShlexQuotes ->
            LET j == NextIn(s, i, IF state = "\"" THEN {"\"", "\\"} ELSE {"'"})
                read == token \o SubSeq(s, i, j - 1)
            IN  CASE j > Len(s) ->
                        [ok |-> FALSE, has |-> FALSE, token |-> << >>, next |-> j]
                  [] s[j] = state ->
                        read_token(s, j + 1, "a", escapedstate, read, TRUE)
                  [] OTHER ->
                        read_token(s, j + 1, "\\", state, read, TRUE)
      [] state = "\\" ->
            CASE i > Len(s) ->
                    [ok |-> FALSE, has |-> FALSE, token |-> << >>, next |-> i]
              [] escapedstate \in ShlexQuotes /\ s[i] # "\\" /\ s[i] # escapedstate ->
                    read_token(s, i + 1, escapedstate, escapedstate,
                               token \o <<"\\", s[i]>>, quoted)
              [] OTHER ->
                    read_token(s, i + 1, escapedstate, escapedstate,
                               Append(token, s[i]), quoted)
      [] OTHER -> \* state = "a"
            LET j == NextIn(s, i, ShlexWhitespace \cup ShlexQuotes \cup {"\\"})
                read == token \o SubSeq(s, i, j - 1)
            IN  CASE j > Len(s) ->
                        [ok |-> TRUE, has |-> (read # << >> \/ quoted),
                         token |-> read, next |-> j]
                  [] s[j] \in ShlexWhitespace /\ (read # << >> \/ quoted) ->
                        [ok |-> TRUE, has |-> TRUE, token |-> read, next |-> j + 1]
                  [] s[j] \in ShlexWhitespace ->
                        read_token(s, j + 1, " ", escapedstate, read, quoted)
                  [] s[j] \in ShlexQuotes ->
                        read_token(s, j + 1, s[j], escapedstate, read, quoted)
                  [] OTHER ->
                        read_token(s, j + 1, "\\", "a", read, quoted)

RECURSIVE TokensFrom(_, _, _)
\* list(lex): the tokens read from position i on, after the tokens acc
TokensFrom(s, i, acc) ==
    LET t == read_token(s, i, " ", " ", << >>, FALSE)
    IN  CASE ~t.ok  -> [ok |-> FALSE, tokens |-> << >>]
          [] ~t.has -> [ok |-> TRUE, tokens |-> acc]
          [] OTHER  -> TokensFrom(s, t.next, Append(acc, t.token))

\* shlex.split(s): [ok, tokens]; ok = FALSE when it raises ValueError
ShlexSplit(s) == TokensFrom(s, 1, << >>)

\* the characters shlex.quote leaves unquoted: [\w@%+=:,./-]
SafeChars ==
    {LowerAlphabet[i] : i \in 1..26} \cup {UpperAlphabet[i] : i \in 1..26}
        \cup Digits \cup {"_", "@", "%", "+", "=", ":", ",", ".", "/", "-"}

RECURSIVE EscapeSingleQuotes(_)
\* s.replace("'", "'\"'\"'")
EscapeSingleQuotes(s) ==
    LET k == NextIn(s, 1, {"'"})
    IN  IF k > Len(s) THEN s
        ELSE SubSeq(s, 1, k - 1) \o <<"'", "\"", "'", "\"", "'">>
                \o EscapeSingleQuotes(SubSeq(s, k + 1, Len(s)))

\* shlex.quote(s)
ShlexQuote(s) ==
    IF s = << >> THEN <<"'", "'">>
    ELSE IF \A i \in 1..Len(s) : s[i] \in SafeChars THEN s
    ELSE <<"'">> \o EscapeSingleQuotes(s) \o <<"'">>

(***************************************************************************)
(* prepare_ffmpeg_test_command                                             *)
(***************************************************************************)
Ffmpeg == <<"f","f","m","p","e","g">>

\* "ffmpeg ", the text the flag insertions replace
FfmpegSpace == <<"f","f","m","p","e","g"," ">>

\* " -f null -", the null output appended by the fallbacks
NullOutputSuffix == <<" ","-","f"," ","n","u","l","l"," ","-">>

\* ["-f", "null", "-"], the tokens that replace the output file
NullOutputTokens == << <<"-","f">>, <<"n","u","l","l">>, <<"-">> >>

\* "-f null", the marker the final check looks for
NullOutputMarker == <<"-","f"," ","n","u","l","l">>

DevNull == <<"/","d","e","v","/","n","u","l","l">>

\* ["-map", "-i"]: the flags whose next token is not skipped as a flag value
UnskippedFlags == { <<"-","m","a","p">>, <<"-","i">> }

\* the -y insertion of prepare_ffmpeg_test_command
WithOverwriteFlag(test_command) ==
    IF /\ ~Contains(test_command, <<" ","-","y"," ">>)
       /\ ~StartsWith(test_command, <<"f","f","m","p","e","g"," ","-","y">>)
    THEN ReplaceFirst(test_command, FfmpegSpace,
                      <<"f","f","m","p","e","g"," ","-","y"," ">>)
    ELSE test_command

WithHideBanner(test_command) ==
    IF ~Contains(test_command, <<" ","-","h","i","d","e","_","b","a","n","n","e","r">>)
    THEN ReplaceFirst(test_command, FfmpegSpace,
            <<"f","f","m","p","e","g"," ","-","h","i","d","e","_","b","a","n","n","e","r"," ">>)
    ELSE test_command

WithLogLevel(test_command) ==
    IF ~Contains(test_command, <<" ","-","l","o","g","l","e","v","e","l">>)
    THEN ReplaceFirst(test_command, FfmpegSpace,
            <<"f","f","m","p","e","g"," ","-","l","o","g","l","e","v","e","l"," ","e","r","r","o","r"," ">>)
    ELSE test_command

\* the test command once the three flags are in
FlaggedCommand(command) == WithLogLevel(WithHideBanner(WithOverwriteFlag(command)))

\* the body of the backward scan for token i: TRUE when the token is skipped
SkipsToken(tokens, i) ==
    \/ StartsWith(tokens[i], <<"-">>)
    \/ tokens[i] = DevNull
    \/ /\ i > 1
       /\ StartsWith(tokens[i - 1], <<"-">>)
       /\ tokens[i - 1] \notin UnskippedFlags

RECURSIVE ScanFrom(_, _)
\* for i in range(len(tokens) - 1, -1, -1), 1-based; 0 is output_file_index None
ScanFrom(tokens, i) ==
    IF i = 0 THEN 0
    ELSE IF SkipsToken(tokens, i) THEN ScanFrom(tokens, i - 1)
    ELSE i

output_file_index(tokens) == ScanFrom(tokens, Len(tokens))

\* a replacement that starts one token late and so keeps the output file
ReplaceAfterOutput(tokens, index) == SubSeq(tokens, 1, index) \o NullOutputTokens

\* tokens[output_file_index:] = ["-f", "null", "-"]
ReplaceOutput(tokens, index) == SubSeq(tokens, 1, index - 1) \o NullOutputTokens

\* " ".join(shlex.quote(token) for token in tokens)
QuoteJoin(tokens) == Join([i \in 1..Len(tokens) |-> ShlexQuote(tokens[i])], <<" ">>)

\* the try block: the output replaced by the null output, or the null output
\* appended when no output is found or shlex.split raises ValueError
WithNullOutput(test_command) ==
    LET split == ShlexSplit(test_command)
        index == output_file_index(split.tokens)
    IN  IF ~split.ok THEN test_command \o NullOutputSuffix
        ELSE IF index # 0 THEN QuoteJoin(ReplaceOutput(split.tokens, index))
        ELSE test_command \o NullOutputSuffix

prepare_ffmpeg_test_command(command) ==
    LET test_command == WithNullOutput(FlaggedCommand(command))
    IN  IF ~Contains(test_command, NullOutputMarker)
        THEN test_command \o NullOutputSuffix
        ELSE test_command

(***************************************************************************)
(* validate_ffmpeg_filter_complex(command, timeout)                        *)
(***************************************************************************)
\* the default of the timeout parameter
DefaultTimeout == 10

\* Optional[str]: None, and a message
None == << >>

Some(message) == << message >>

\* the insertion without the test for a -y that is already there
CleanedCommandUntested(command) ==
    ReplaceFirst(command, FfmpegSpace, <<"f","f","m","p","e","g"," ","-","y"," ">>)

\* the -y insertion of validate_ffmpeg_filter_complex
CleanedCommand(command) ==
    IF /\ ~Contains(command, <<" ","-","y"," ">>)
       /\ ~StartsWith(command, <<"f","f","m","p","e","g"," ","-","y">>)
    THEN ReplaceFirst(command, FfmpegSpace,
                      <<"f","f","m","p","e","g"," ","-","y"," ">>)
    ELSE command

\* a test for "ffmpeg" anywhere in the command, not at its start
MentionsFfmpeg(command) == Contains(Lower(Strip(command)), Ffmpeg)

\* command.strip().lower().startswith("ffmpeg")
StartsWithFfmpeg(command) == StartsWith(Lower(Strip(command)), Ffmpeg)

\* the same test without its zoompan part
LacksFilterComplexForOverlay(cleaned_command) ==
    /\ ~Contains(cleaned_command,
                 <<"-","f","i","l","t","e","r","_","c","o","m","p","l","e","x">>)
    /\ Contains(cleaned_command, <<"o","v","e","r","l","a","y","=">>)

\* the test made once the dry run has exited with status 0
LacksFilterComplex(cleaned_command) ==
    /\ ~Contains(cleaned_command,
                 <<"-","f","i","l","t","e","r","_","c","o","m","p","l","e","x">>)
    /\ \/ Contains(cleaned_command, <<"o","v","e","r","l","a","y","=">>)
       \/ Contains(cleaned_command, <<"z","o","o","m","p","a","n","=">>)

\* The messages.  A literal text is kept as one element; the text formatted
\* into it follows character by character.
MustStartMessage == <<"The command must start with \"ffmpeg\"">>

MissingInputMessage ==
    <<"Missing input file after -i flag. Please specify a valid input file path.">>

FailedMessage(error_msg) ==
    <<"FFmpeg command validation failed with error: ">> \o error_msg

FilterComplexMessage ==
    <<"Command should use -filter_complex for the specified filters.">>

TimedOutMessage(timeout) ==
    <<"Command validation timed out after ", ToString(timeout), " seconds">>

ErrorMessage(e) == <<"Command validation error: ">> \o e

\* the tuple (is_valid, error_message, cleaned_command) the function returns
Verdict(is_valid, error_message, cleaned_command) ==
    [is_valid |-> is_valid, error_message |-> error_message,
     cleaned_command |-> cleaned_command]

(***************************************************************************)
(* The calls the model makes: the commands, the timeouts, and what the     *)
(* dry run's process may do.                                               *)
(***************************************************************************)
\* how a command names the tool
ToolNames ==
    { <<"f","f","m","p","e","g">>,
      <<"F","F","m","p","e","g">>,
      <<" ","f","f","m","p","e","g">>,
      <<"s","u","d","o"," ","f","f","m","p","e","g">> }

\* the pieces that follow the tool name, each after one space: flags with and
\* without their value, paths, the null output, a quoted stream label, filters
\* inside and outside -filter_complex, nothing (which doubles the space or
\* leaves one at the end), and a quotation that is never closed
Pieces ==
    { <<"-","i">>,
      <<"-","i"," ","i","n",".","m","p","4">>,
      <<"o","u","t",".","m","p","4">>,
      <<"o","2",".","m","p","4">>,
      <<"-","f"," ","n","u","l","l"," ","-">>,
      <<"-","y">>,
      <<"-","m","a","p"," ","'","[","v","]","'">>,
      << >>,
      <<"-","v","f"," ","z","o","o","m","p","a","n","=","z","=","2">>,
      <<"-","f","i","l","t","e","r","_","c","o","m","p","l","e","x"," ","o","v","e","r","l","a","y","=","1">>,
      <<"/","d","e","v","/","n","u","l","l">>,
      <<"'","x">> }

ArgLists == UNION {[1..n -> Pieces] : n \in 0..MaxArgs}

Commands == {Join(<<tool>> \o args, <<" ">>) : tool \in ToolNames, args \in ArgLists}

Timeouts == {DefaultTimeout}

\* exit statuses other than 0
NonzeroCodes == {1}

\* what the process may have written to stderr
StderrSamples == { << >>, <<" ","b","a","d","\n">> }

\* str(e) of an exception subprocess.run may raise
ExceptionTexts == { <<"e","m","b","e","d","d","e","d"," ","n","u","l","l"," ","b","y","t","e">> }

VARIABLES
    pc,               \* where the call is: "called", "running", "done"
    command,          \* the command parameter
    timeout,          \* the timeout parameter
    cleaned_command,  \* the local cleaned_command
    test_command,     \* the local test_command, handed to subprocess.run
    spawned,          \* the number of processes the call has spawned
    returncode,       \* result.returncode; -1 while there is none
    stderr,           \* result.stderr
    raised,           \* the exception subprocess.run raised, "" for none
    result,           \* the tuple returned
    agent,            \* the agent whose run it is; "" for a call made on its own
    retries,          \* the number of outputs of the run that were sent back
    tool_result,      \* what the filter tool has returned; None while it has not
    alive             \* the processes the call has spawned that still run

\* the state of an agent's run
agentVars == <<agent, retries, tool_result>>

\* the variables of validate_ffmpeg_filter_complex and of the agent runs
validatorVars == <<pc, command, timeout, cleaned_command, test_command, spawned,
                   returncode, stderr, raised, result, agent, retries,
                   tool_result, alive>>

\* no validation is being made
ValidatorIdle ==
    /\ pc = "idle"
    /\ command = << >>
    /\ timeout = DefaultTimeout
    /\ cleaned_command = << >>
    /\ test_command = << >>
    /\ spawned = 0
    /\ returncode = -1
    /\ stderr = << >>
    /\ raised = ""
    /\ result = Verdict(FALSE, None, << >>)
    /\ agent = ""
    /\ retries = 0
    /\ tool_result = None
    /\ alive = {}

VARIABLES
    fn,               \* the tool that makes intermediate media: its name
    fargs,            \* its arguments and what it finds in the environment
    fpc,              \* where the tool is
    temp_exists,      \* whether the temporary file or directory exists
    freturned         \* what the tool returned: "" while it has not

\* the state of a tool that makes intermediate media
tempVars == <<fn, fargs, fpc, temp_exists, freturned>>

\* no such tool is running
TempIdle ==
    /\ fn = ""
    /\ fargs = << >>
    /\ fpc = "idle"
    /\ temp_exists = FALSE
    /\ freturned = ""

VARIABLES
    entry,            \* the function of start.py that was called
    spc,              \* where it is
    requests,         \* the requests the user has entered
    planner_ok,       \* whether plan_video_editing returned for the request
    plan,             \* the local plan of the session: None, or the plan
    tasks,            \* plan.tasks, for _execute_plan
    task_i,           \* the loop index i of _execute_plan
    sent,             \* the indices of the tasks sent to main_agent, in order
    ncmd,             \* the commands main_agent has generated
    cmd,              \* the command at hand: its number, 0 for none
    confirmed,        \* the commands confirm_user returned True for
    declined,         \* the commands confirm_user returned False for
    executed,         \* the commands a subprocess was spawned for, in order
    success,          \* what _run_ffmpeg_command returned last
    progress,         \* progress_manager._progress: None, or a Progress
    entered,          \* the Progress of each progress_context still entered
    made              \* the Progress instances made

\* the state of the interactive session and of the progress manager
sessionVars == <<entry, spc, requests, planner_ok, plan, tasks, task_i, sent,
                 ncmd, cmd, confirmed, declined, executed, success, progress,
                 entered, made>>

\* start.py is not running
SessionIdle ==
    /\ entry = ""
    /\ spc = "idle"
    /\ requests = 0
    /\ planner_ok = FALSE
    /\ plan = None
    /\ tasks = << >>
    /\ task_i = 0
    /\ sent = << >>
    /\ ncmd = 0
    /\ cmd = 0
    /\ confirmed = {}
    /\ declined = {}
    /\ executed = << >>
    /\ success = FALSE
    /\ progress = None
    /\ entered = << >>
    /\ made = 0

VARIABLES
    calls,            \* the concurrent calls of the validator: for each caller
                      \* the locals of its call
    written           \* the files the dry runs have written

\* the calls the callers have made so far
MaxCalls == 2

\* the callers that validate concurrently
Callers == 1..2

\* the state of validator calls made concurrently
concVars == <<calls, written>>

\* the locals of a caller that has not called yet
NoCall ==
    [pc |-> "idle", n |-> 0, command |-> << >>, timeout |-> DefaultTimeout,
     cleaned_command |-> << >>, test_command |-> << >>, returncode |-> -1,
     stderr |-> << >>, raised |-> "",
     result |-> Verdict(FALSE, None, << >>)]

\* no concurrent call has been made
ConcIdle ==
    /\ calls = [c \in Callers |-> NoCall]
    /\ written = {}

\* the variables of the other parts of the program
otherVars == <<tempVars, sessionVars, concVars>>

\* the other parts of the program before anything has run
OtherInit == TempIdle /\ SessionIdle /\ ConcIdle

vars == <<pc, command, timeout, cleaned_command, test_command, spawned,
          returncode, stderr, raised, result, agent, retries, tool_result,
          alive, otherVars>>

\* /bin/sh, the process subprocess.run starts with shell=True
Shell == <<"s","h">>

Init ==
    /\ pc = "called"
    /\ command \in Commands
    /\ timeout \in Timeouts
    /\ cleaned_command = << >>
    /\ test_command = << >>
    /\ spawned = 0
    /\ returncode = -1
    /\ stderr = << >>
    /\ raised = ""
    /\ result = Verdict(FALSE, None, << >>)
    /\ agent = ""
    /\ retries = 0
    /\ tool_result = None
    /\ alive = {}
    /\ OtherInit

\* return at the first check: the command does not start with "ffmpeg"
RejectNotFfmpeg ==
    /\ pc = "called"
    /\ ~StartsWithFfmpeg(command)
    /\ result' = Verdict(FALSE, Some(MustStartMessage), command)
    /\ pc' = "done"
    /\ UNCHANGED <<command, timeout, cleaned_command, test_command, spawned,
                   returncode, stderr, raised>>
    /\ UNCHANGED agentVars
    /\ UNCHANGED alive
    /\ UNCHANGED otherVars

\* return at the second check: the pattern for a missing input file matches
RejectMissingInput ==
    /\ pc = "called"
    /\ StartsWithFfmpeg(command)
    /\ MissingInputPattern(command)
    /\ result' = Verdict(FALSE, Some(MissingInputMessage), command)
    /\ pc' = "done"
    /\ UNCHANGED <<command, timeout, cleaned_command, test_command, spawned,
                   returncode, stderr, raised>>
    /\ UNCHANGED agentVars
    /\ UNCHANGED alive
    /\ UNCHANGED otherVars

\* both checks passed: -y is added, the test command prepared and handed to
\* subprocess.run
RunDryRun ==
    /\ pc = "called"
    /\ StartsWithFfmpeg(command)
    /\ ~MissingInputPattern(command)
    /\ cleaned_command' = CleanedCommand(command)
    /\ test_command' = prepare_ffmpeg_test_command(CleanedCommand(command))
    /\ spawned' = spawned + 1
    /\ pc' = "running"
    /\ UNCHANGED <<command, timeout, returncode, stderr, raised, result>>
    /\ UNCHANGED agentVars
    /\ alive' = {Shell}
    /\ UNCHANGED otherVars

\* the process exits with a status other than 0
ExitNonzero ==
    /\ pc = "running"
    /\ \E code \in NonzeroCodes, err \in StderrSamples :
        /\ returncode' = code
        /\ stderr' = err
        /\ result' = Verdict(FALSE, Some(FailedMessage(Strip(err))), cleaned_command)
    /\ pc' = "done"
    /\ UNCHANGED <<command, timeout, cleaned_command, test_command, spawned, raised>>
    /\ UNCHANGED agentVars
    /\ alive' = {}
    /\ UNCHANGED otherVars

\* an exit with status 0 that hands back the command that was run
ExitZeroReturnsTestCommand ==
    /\ pc = "running"
    /\ returncode' = 0
    /\ stderr' = << >>
    /\ result' = IF LacksFilterComplex(cleaned_command)
                 THEN Verdict(FALSE, Some(FilterComplexMessage), test_command)
                 ELSE Verdict(TRUE, None, test_command)
    /\ pc' = "done"
    /\ UNCHANGED <<command, timeout, cleaned_command, test_command, spawned, raised>>
    /\ UNCHANGED agentVars
    /\ alive' = {}
    /\ UNCHANGED otherVars

\* the process exits with status 0
ExitZero ==
    /\ pc = "running"
    /\ returncode' = 0
    /\ stderr' = << >>
    /\ result' = IF LacksFilterComplex(cleaned_command)
                 THEN Verdict(FALSE, Some(FilterComplexMessage), cleaned_command)
                 ELSE Verdict(TRUE, None, cleaned_command)
    /\ pc' = "done"
    /\ UNCHANGED <<command, timeout, cleaned_command, test_command, spawned, raised>>
    /\ UNCHANGED agentVars
    /\ alive' = {}
    /\ UNCHANGED otherVars

\* subprocess.run raises TimeoutExpired: it has killed the process it started,
\* the shell, and waited for it. The ffmpeg the shell started is not signalled:
\* it is gone only if the shell had replaced itself by it, or it ended by itself
TimeoutExpired ==
    /\ pc = "running"
    /\ result' = Verdict(TRUE, Some(TimedOutMessage(timeout)), cleaned_command)
    /\ raised' = "TimeoutExpired"
    /\ pc' = "done"
    /\ UNCHANGED <<command, timeout, cleaned_command, test_command, spawned,
                   returncode, stderr>>
    /\ UNCHANGED agentVars
    /\ \E orphans \in SUBSET {Ffmpeg} : alive' = orphans
    /\ UNCHANGED otherVars

\* a handler that answers another exception as the timeout is answered
OtherExceptionAccepted ==
    /\ pc = "running"
    /\ \E e \in ExceptionTexts :
        result' = Verdict(TRUE, Some(ErrorMessage(e)), cleaned_command)
    /\ raised' = "Exception"
    /\ pc' = "done"
    /\ UNCHANGED <<command, timeout, cleaned_command, test_command, spawned,
                   returncode, stderr>>
    /\ UNCHANGED agentVars
    /\ alive' = {}
    /\ UNCHANGED otherVars

\* subprocess.run raises another exception
OtherException ==
    /\ pc = "running"
    /\ \E e \in ExceptionTexts :
        result' = Verdict(FALSE, Some(ErrorMessage(e)), cleaned_command)
    /\ raised' = "Exception"
    /\ pc' = "done"
    /\ UNCHANGED <<command, timeout, cleaned_command, test_command, spawned,
                   returncode, stderr>>
    /\ UNCHANGED agentVars
    /\ alive' = {}
    /\ UNCHANGED otherVars

Next ==
    \/ RejectNotFfmpeg
    \/ RejectMissingInput
    \/ RunDryRun
    \/ ExitNonzero
    \/ ExitZero
    \/ TimeoutExpired
    \/ OtherException

Spec == Init /\ [][Next]_vars

\* the call has returned
Returned == pc = "done"

(***************************************************************************)
(* prepare_ffmpeg_test_command(command) called on its own, on any string:  *)
(* pc goes from "prepare" to "prepared" and test_command holds what the    *)
(* function returned.                                                      *)
(***************************************************************************)
PrepareInit ==
    /\ pc = "prepare"
    /\ command \in Commands
    /\ timeout \in Timeouts
    /\ cleaned_command = << >>
    /\ test_command = << >>
    /\ spawned = 0
    /\ returncode = -1
    /\ stderr = << >>
    /\ raised = ""
    /\ result = Verdict(FALSE, None, << >>)
    /\ agent = ""
    /\ retries = 0
    /\ tool_result = None
    /\ alive = {}
    /\ OtherInit

\* the function as it would be without the null output
prepare_flags_only ==
    /\ pc = "prepare"
    /\ test_command' = FlaggedCommand(command)
    /\ pc' = "prepared"
    /\ UNCHANGED <<command, timeout, cleaned_command, spawned, returncode,
                   stderr, raised, result>>
    /\ UNCHANGED agentVars
    /\ UNCHANGED alive
    /\ UNCHANGED otherVars

\* the call and its return
Prepare ==
    /\ pc = "prepare"
    /\ test_command' = prepare_ffmpeg_test_command(command)
    /\ pc' = "prepared"
    /\ UNCHANGED <<command, timeout, cleaned_command, spawned, returncode,
                   stderr, raised, result>>
    /\ UNCHANGED agentVars
    /\ UNCHANGED alive
    /\ UNCHANGED otherVars

PrepareNext == Prepare

PrepareSpec == PrepareInit /\ [][PrepareNext]_vars

(***************************************************************************)
(* The filter tools.  A tool runs its agent and returns result.output.     *)
(* The agent's model answers with a command; if the agent has an output    *)
(* validator the answer goes through it, and a ModelRetry sends it back to *)
(* the model until the retries of the run are used up.                     *)
(***************************************************************************)
\* result_retries=3 of overlay_agent, efects_agent and compression_agent
ResultRetries == 3

\* the agents whose output validator calls validate_ffmpeg_filter_complex
CommonValidatorAgents == {"overlay", "effects"}

\* the agents that have no output validator
NoValidatorAgents == {"audio", "text", "transition"}

Agents == {"overlay", "effects", "audio", "text", "transition", "sync", "compression"}

\* the retries as they would be with result_retries left out of two agents
max_result_retries_of_overlay(a) ==
    IF a \in {"overlay"} THEN ResultRetries ELSE 1

\* the retries an agent allows its output: result_retries where the agent is
\* built with it, 1 where it is not
max_result_retries(a) ==
    IF a \in {"overlay", "effects", "compression"} THEN ResultRetries ELSE 1

\* what the model of an agent may answer
AgentOutputs ==
    { <<"f","f","m","p","e","g"," ","-","i"," ","i","n",".","m","p","4"," ","o","u","t",".","m","p","4">>,
      <<"f","f","m","p","e","g"," ","-","i"," ","i","n",".","m","p","4"," ","-","f","i","l","t","e","r","_","c","o","m","p","l","e","x"," ","o","v","e","r","l","a","y","=","1"," ","o","u","t",".","m","p","4">>,
      <<"f","f","m","p","e","g"," ","-","i"," ","i","n",".","m","p","4"," ","-","v","f"," ","z","o","o","m","p","a","n","=","z","=","2"," ","o","u","t",".","m","p","4">>,
      <<"f","f","m","p","e","g"," ","-","i"," ","i","n",".","m","p","4"," ","o","u","t",".","m","p","4"," ","-","y">>,
      <<"f","f","m","p","e","g"," ","-","i"," ","-","y"," ","o","u","t",".","m","p","4">>,
      <<"f","f","m","p","e","g"," ","-","i"," ">>,
      <<"H","e","r","e"," ","i","s"," ","t","h","e"," ","c","o","m","m","a","n","d",":"," ","f","f","m","p","e","g"," ","-","i"," ","i","n",".","m","p","4"," ","o","u","t",".","m","p","4">> }

AgentInit ==
    /\ pc = "model"
    /\ agent \in Agents
    /\ retries = 0
    /\ tool_result = None
    /\ command = << >>
    /\ timeout = DefaultTimeout
    /\ cleaned_command = << >>
    /\ test_command = << >>
    /\ spawned = 0
    /\ returncode = -1
    /\ stderr = << >>
    /\ raised = ""
    /\ result = Verdict(FALSE, None, << >>)
    /\ alive = {}
    /\ OtherInit

\* the model has answered and the output validator is called with the answer:
\* validate_ffmpeg_filter_complex(output, timeout=10)
CallValidator ==
    /\ pc = "model"
    /\ agent \in CommonValidatorAgents
    /\ \E output \in AgentOutputs : command' = output
    /\ timeout' = 10
    /\ cleaned_command' = << >>
    /\ test_command' = << >>
    /\ returncode' = -1
    /\ stderr' = << >>
    /\ raised' = ""
    /\ result' = Verdict(FALSE, None, << >>)
    /\ pc' = "called"
    /\ UNCHANGED <<spawned, agent, retries, tool_result>>
    /\ UNCHANGED alive
    /\ UNCHANGED otherVars

\* if not is_valid: raise ModelRetry(error_message)
RaiseModelRetry ==
    /\ pc = "done"
    /\ agent \in CommonValidatorAgents
    /\ ~result.is_valid
    /\ pc' = "retry"
    /\ UNCHANGED <<command, timeout, cleaned_command, test_command, spawned,
                   returncode, stderr, raised, result, agent, retries, tool_result>>
    /\ UNCHANGED alive
    /\ UNCHANGED otherVars

\* a validator that returns the output it was given, not the cleaned command
ReturnOutput ==
    /\ pc = "done"
    /\ agent \in CommonValidatorAgents
    /\ result.is_valid
    /\ tool_result' = Some(command)
    /\ pc' = "returned"
    /\ UNCHANGED <<command, timeout, cleaned_command, test_command, spawned,
                   returncode, stderr, raised, result, agent, retries>>
    /\ UNCHANGED alive
    /\ UNCHANGED otherVars

\* return cleaned_command: it becomes result.output, which the tool returns
ReturnCleanedCommand ==
    /\ pc = "done"
    /\ agent \in CommonValidatorAgents
    /\ result.is_valid
    /\ tool_result' = Some(result.cleaned_command)
    /\ pc' = "returned"
    /\ UNCHANGED <<command, timeout, cleaned_command, test_command, spawned,
                   returncode, stderr, raised, result, agent, retries>>
    /\ UNCHANGED alive
    /\ UNCHANGED otherVars

\* an agent without output validator: the model's answer is result.output,
\* and the tool returns it
ReturnModelOutput ==
    /\ pc = "model"
    /\ agent \in NoValidatorAgents
    /\ \E output \in AgentOutputs :
        /\ command' = output
        /\ tool_result' = Some(output)
    /\ pc' = "returned"
    /\ UNCHANGED <<timeout, cleaned_command, test_command, spawned,
                   returncode, stderr, raised, result, agent, retries>>
    /\ UNCHANGED alive
    /\ UNCHANGED otherVars

(***************************************************************************)
(* The output validators of the sync and the compression agent, which      *)
(* carry their own copy of the dry run.                                    *)
(***************************************************************************)
\* the agents whose output validator makes the dry run itself
InlineValidatorAgents == {"sync", "compression"}

\* ["-f", "null", "/dev/null"]
InlineNullOutputTokens == << <<"-","f">>, <<"n","u","l","l">>, DevNull >>

\* " -f null /dev/null"
InlineNullOutputSuffix == <<" ","-","f"," ","n","u","l","l"," ">> \o DevNull

\* the test command the validator makes of output, to which -y has been added
inline_test_command(output) ==
    LET split == ShlexSplit(output)
        index == output_file_index(split.tokens)
        test  == IF ~split.ok THEN output \o InlineNullOutputSuffix
                 ELSE IF index # 0
                      THEN QuoteJoin(SubSeq(split.tokens, 1, index - 1)
                                         \o InlineNullOutputTokens)
                      ELSE output \o InlineNullOutputSuffix
    IN  IF ~Contains(test, NullOutputMarker)
        THEN test \o InlineNullOutputSuffix
        ELSE test

\* the model has answered and the output validator is called with the answer
CallInlineValidator ==
    /\ pc = "model"
    /\ agent \in InlineValidatorAgents
    /\ \E output \in AgentOutputs : command' = output
    /\ timeout' = IF agent = "sync" THEN 10 ELSE 6
    /\ cleaned_command' = << >>
    /\ test_command' = << >>
    /\ returncode' = -1
    /\ stderr' = << >>
    /\ raised' = ""
    /\ pc' = "validating"
    /\ UNCHANGED <<spawned, result, agent, retries, tool_result>>
    /\ UNCHANGED alive
    /\ UNCHANGED otherVars

\* ModelRetry at the first check: the output does not start with "ffmpeg"
InlineRejectNotFfmpeg ==
    /\ pc = "validating"
    /\ ~StartsWithFfmpeg(command)
    /\ pc' = "retry"
    /\ UNCHANGED <<command, timeout, cleaned_command, test_command, spawned,
                   returncode, stderr, raised, result, agent, retries, tool_result>>
    /\ UNCHANGED alive
    /\ UNCHANGED otherVars

\* ModelRetry at the second check: the pattern for a missing input file matches
InlineRejectMissingInput ==
    /\ pc = "validating"
    /\ StartsWithFfmpeg(command)
    /\ MissingInputPattern(command)
    /\ pc' = "retry"
    /\ UNCHANGED <<command, timeout, cleaned_command, test_command, spawned,
                   returncode, stderr, raised, result, agent, retries, tool_result>>
    /\ UNCHANGED alive
    /\ UNCHANGED otherVars

\* both checks passed: -y is added to output, the test command made of it and
\* handed to subprocess.run
InlineRunDryRun ==
    /\ pc = "validating"
    /\ StartsWithFfmpeg(command)
    /\ ~MissingInputPattern(command)
    /\ cleaned_command' = CleanedCommand(command)
    /\ test_command' = inline_test_command(CleanedCommand(command))
    /\ spawned' = spawned + 1
    /\ pc' = "dry run"
    /\ UNCHANGED <<command, timeout, returncode, stderr, raised, result,
                   agent, retries, tool_result>>
    /\ alive' = {Shell}
    /\ UNCHANGED otherVars

\* the process exits with a status other than 0: ModelRetry
InlineExitNonzero ==
    /\ pc = "dry run"
    /\ \E code \in NonzeroCodes, err \in StderrSamples :
        /\ returncode' = code
        /\ stderr' = err
    /\ pc' = "retry"
    /\ UNCHANGED <<command, timeout, cleaned_command, test_command, spawned,
                   raised, result, agent, retries, tool_result>>
    /\ alive' = {}
    /\ UNCHANGED otherVars

\* the process exits with status 0.  The compression validator returns output.
\* The sync validator returns output if it holds "-filter_complex"; if not, it
\* evaluates output.filters_used on a str, and the AttributeError ends as a
\* ModelRetry.
InlineExitZero ==
    /\ pc = "dry run"
    /\ returncode' = 0
    /\ stderr' = << >>
    /\ IF /\ agent = "sync"
          /\ ~Contains(cleaned_command,
                       <<"-","f","i","l","t","e","r","_","c","o","m","p","l","e","x">>)
       THEN /\ raised' = "AttributeError"
            /\ pc' = "retry"
            /\ UNCHANGED tool_result
       ELSE /\ raised' = raised
            /\ tool_result' = Some(cleaned_command)
            /\ pc' = "returned"
    /\ UNCHANGED <<command, timeout, cleaned_command, test_command, spawned,
                   result, agent, retries>>
    /\ alive' = {}
    /\ UNCHANGED otherVars

\* subprocess.run raises TimeoutExpired: the sync validator raises ModelRetry,
\* the compression validator returns output
InlineTimeoutExpired ==
    /\ pc = "dry run"
    /\ raised' = "TimeoutExpired"
    /\ IF agent = "sync"
       THEN /\ pc' = "retry"
            /\ UNCHANGED tool_result
       ELSE /\ tool_result' = Some(cleaned_command)
            /\ pc' = "returned"
    /\ UNCHANGED <<command, timeout, cleaned_command, test_command, spawned,
                   returncode, stderr, result, agent, retries>>
    /\ \E orphans \in SUBSET {Ffmpeg} : alive' = orphans
    /\ UNCHANGED otherVars

\* subprocess.run raises another exception: ModelRetry
InlineOtherException ==
    /\ pc = "dry run"
    /\ raised' = "Exception"
    /\ pc' = "retry"
    /\ UNCHANGED <<command, timeout, cleaned_command, test_command, spawned,
                   returncode, stderr, result, agent, retries, tool_result>>
    /\ alive' = {}
    /\ UNCHANGED otherVars

\* a ModelRetry counts against the retries of the run, and while they are not
\* used up the model is asked again
AskModelAgain ==
    /\ pc = "retry"
    /\ retries + 1 <= max_result_retries(agent)
    /\ retries' = retries + 1
    /\ pc' = "model"
    /\ UNCHANGED <<command, timeout, cleaned_command, test_command, spawned,
                   returncode, stderr, raised, result, agent, tool_result>>
    /\ UNCHANGED alive
    /\ UNCHANGED otherVars

\* the retries are used up: the run ends with an error, which the tool does
\* not catch
SurfaceFailure ==
    /\ pc = "retry"
    /\ retries + 1 > max_result_retries(agent)
    /\ retries' = retries + 1
    /\ pc' = "failed"
    /\ UNCHANGED <<command, timeout, cleaned_command, test_command, spawned,
                   returncode, stderr, raised, result, agent, tool_result>>
    /\ UNCHANGED alive
    /\ UNCHANGED otherVars

AgentNext ==
    \/ CallValidator
    \/ RejectNotFfmpeg
    \/ RejectMissingInput
    \/ RunDryRun
    \/ ExitNonzero
    \/ ExitZero
    \/ TimeoutExpired
    \/ OtherException
    \/ RaiseModelRetry
    \/ ReturnCleanedCommand
    \/ ReturnModelOutput
    \/ CallInlineValidator
    \/ InlineRejectNotFfmpeg
    \/ InlineRejectMissingInput
    \/ InlineRunDryRun
    \/ InlineExitNonzero
    \/ InlineExitZero
    \/ InlineTimeoutExpired
    \/ InlineOtherException
    \/ AskModelAgain
    \/ SurfaceFailure

AgentSpec == AgentInit /\ [][AgentNext]_vars

\* the model answers in the end, and a process exits or is timed out
\* the steps that check the command's form: the two structural rejections and
\* the start of the dry run, of the common validator and of the inline ones
StructuralChecks ==
    \/ RejectNotFfmpeg
    \/ RejectMissingInput
    \/ RunDryRun
    \/ InlineRejectNotFfmpeg
    \/ InlineRejectMissingInput
    \/ InlineRunDryRun

\* every other step of an agent run
AgentNextAfterChecks ==
    \/ CallValidator
    \/ ExitNonzero
    \/ ExitZero
    \/ TimeoutExpired
    \/ OtherException
    \/ RaiseModelRetry
    \/ ReturnCleanedCommand
    \/ ReturnModelOutput
    \/ CallInlineValidator
    \/ InlineExitNonzero
    \/ InlineExitZero
    \/ InlineTimeoutExpired
    \/ InlineOtherException
    \/ AskModelAgain
    \/ SurfaceFailure

\* the awaited run is resumed whenever it can go on, the model answers, and
\* subprocess.run returns or raises within its timeout: weak fairness of every
\* step. For StructuralChecks it is written out: one of the three guards (not an
\* ffmpeg command, an -i without a file, neither) holds of every command, so
\* the steps are enabled exactly when the validator has just been entered
AgentFairSpec ==
    /\ AgentSpec
    /\ WF_vars(AgentNextAfterChecks)
    /\ \/ []<>(pc \notin {"called", "validating"})
       \/ []<><<StructuralChecks>>_vars

\* the run has ended
RunEnded == pc \in {"returned", "failed"}

(***************************************************************************)
(* The claims.  What a claim says of a command is stated here on its own,  *)
(* from the command's characters and tokens, and not through the           *)
(* operators above that model the code's tests.                            *)
(***************************************************************************)
\* the tokens of a command, for a command shlex can split
TokensOf(s) == ShlexSplit(s).tokens

IsFlag(token) == Len(token) >= 1 /\ token[1] = "-"

InputFlag == <<"-","i">>

MapFlag == <<"-","m","a","p">>

\* the paths the commands of the model name as their output files
OutputPaths == { <<"o","u","t",".","m","p","4">>, <<"o","2",".","m","p","4">> }

\* after trimming whitespace and lower-casing, s starts with "ffmpeg"
BeginsWithTool(s) ==
    \E k \in 1..Len(s) :
        /\ \A j \in 1..(k - 1) : s[j] \in Whitespace
        /\ k + 5 <= Len(s)
        /\ Lower(SubSeq(s, k, k + 5)) = Ffmpeg

\* C1: a command that, trimmed and lower-cased, does not start with "ffmpeg"
\* is returned as invalid with the must-start-with-ffmpeg message, unchanged,
\* and no process has been spawned for it.
C1_NotFfmpegRejected ==
    (Returned /\ ~BeginsWithTool(command)) =>
        /\ result = Verdict(FALSE, Some(MustStartMessage), command)
        /\ spawned = 0

\* C1 happens: such a command has been rejected
C1_Witness ==
    /\ Returned
    /\ ~BeginsWithTool(command)
    /\ Contains(command, Ffmpeg)
    /\ ~result.is_valid

\* the flag -i stands at position k of s as a token of its own and is followed
\* by whitespace and a token that starts with "-", or by nothing but whitespace
InputFlagLacksFile(s) ==
    \E k \in 2..(Len(s) - 1) :
        /\ s[k - 1] \in Whitespace
        /\ OccursAt(s, k, InputFlag)
        /\ LET j == NextNotIn(s, k + 2, Whitespace)
           IN  \/ j > Len(s)
               \/ j > k + 2 /\ s[j] = "-"

\* C2: a command that starts with ffmpeg and in which -i is followed by another
\* flag or by the end of the string is returned as invalid with the
\* missing-input-file message, and no process has been spawned for it.
C2_MissingInputRejected ==
    (Returned /\ BeginsWithTool(command) /\ InputFlagLacksFile(command)) =>
        /\ result = Verdict(FALSE, Some(MissingInputMessage), command)
        /\ spawned = 0

InputPath == <<"i","n",".","m","p","4">>

\* a command of the usual shape: shlex can split it and it starts
\* ffmpeg -i in.mp4
UsualCommand(s) ==
    /\ ShlexSplit(s).ok
    /\ LET tokens == TokensOf(s)
       IN  /\ Len(tokens) >= 3
           /\ tokens[1] = Ffmpeg
           /\ tokens[2] = InputFlag
           /\ tokens[3] = InputPath

\* the last token of s is an output path that follows a token that is no flag
EndsWithOutputFile(s) ==
    LET tokens == TokensOf(s)
    IN  /\ tokens[Len(tokens)] \in OutputPaths
        /\ ~IsFlag(tokens[Len(tokens) - 1])

\* C3: prepare_ffmpeg_test_command is idempotent on a command of the usual
\* shape that ends with its output file: applied to the test command it has
\* made, it returns that test command.
C3_PrepareIdempotent ==
    (pc = "running" /\ UsualCommand(command) /\ EndsWithOutputFile(command)) =>
        prepare_ffmpeg_test_command(test_command) = test_command

\* C4: for a command of the usual shape, the token the backward scan chooses
\* as the output never directly follows an -i or a -map flag.
C4_OutputNotAfterInputOrMap ==
    (pc = "running" /\ UsualCommand(command)) =>
        LET tokens == TokensOf(FlaggedCommand(cleaned_command))
            chosen == output_file_index(tokens)
        IN  chosen > 1 => tokens[chosen - 1] \notin {InputFlag, MapFlag}

\* no token after the tool name is a positional path: each is a flag, is
\* /dev/null, or directly follows a flag
NoPositionalOutput(tokens) ==
    \A i \in 2..Len(tokens) :
        \/ IsFlag(tokens[i])
        \/ tokens[i] = DevNull
        \/ IsFlag(tokens[i - 1])

\* C5: for a command of the usual shape with no positional output token the
\* null output is appended: the test command keeps every token of the
\* flag-augmented command, in order, and holds the null output.
C5_AppendsWhenNoOutput ==
    (/\ pc = "running"
     /\ UsualCommand(command)
     /\ NoPositionalOutput(TokensOf(command))) =>
        LET before == TokensOf(FlaggedCommand(cleaned_command))
            after  == TokensOf(test_command)
        IN  /\ Len(after) >= Len(before)
            /\ SubSeq(after, 1, Len(before)) = before
            /\ Contains(test_command, NullOutputMarker)

\* token i is no flag, is not /dev/null, and does not directly follow a flag
\* other than -i and -map
CandidateAt(tokens, i) ==
    /\ ~IsFlag(tokens[i])
    /\ tokens[i] # DevNull
    /\ ~(i > 1 /\ IsFlag(tokens[i - 1]) /\ tokens[i - 1] \notin {InputFlag, MapFlag})

Candidates(tokens) == {i \in 1..Len(tokens) : CandidateAt(tokens, i)}

\* the position of p, the last such token
LastCandidate(tokens) ==
    CHOOSE i \in Candidates(tokens) : \A j \in Candidates(tokens) : j <= i

C7_NoOutputPathInDryRun ==
    (pc = "running" /\ UsualCommand(command)) =>
        LET tokens == TokensOf(command)
            run    == TokensOf(test_command)
        IN  \A i \in 4..Len(tokens) :
                (tokens[i] \in OutputPaths /\ ~IsFlag(tokens[i - 1])) =>
                    \A j \in 1..Len(run) : run[j] # tokens[i]

\* s names an overlay or a zoompan filter and no -filter_complex
FilterOutsideFilterComplex(s) ==
    /\ \/ \E k \in 1..Len(s) : OccursAt(s, k, <<"o","v","e","r","l","a","y","=">>)
       \/ \E k \in 1..Len(s) : OccursAt(s, k, <<"z","o","o","m","p","a","n","=">>)
    /\ ~\E k \in 1..Len(s) :
            OccursAt(s, k, <<"-","f","i","l","t","e","r","_","c","o","m","p","l","e","x">>)

\* C8 as first stated: when the dry run has exited with status 0 the verdict is
\* valid and carries no message.
C8_ExitZeroValid ==
    (Returned /\ returncode = 0) =>
        /\ result.is_valid
        /\ result.error_message = None

\* C8 as amended: when the dry run has exited with status 0 the verdict is
\* valid and carries no message, unless the cleaned command names an overlay or
\* zoompan filter without -filter_complex: then it is invalid and carries the
\* use-filter_complex message.
C8_ExitZeroValidUnlessFilter ==
    (Returned /\ returncode = 0) =>
        IF FilterOutsideFilterComplex(cleaned_command)
        THEN result = Verdict(FALSE, Some(FilterComplexMessage), cleaned_command)
        ELSE result = Verdict(TRUE, None, cleaned_command)

\* C8 happens: the dry run of a usual command that names an overlay filter
\* with -filter_complex has exited with status 0, and the verdict is valid
C8_Witness ==
    /\ Returned
    /\ returncode = 0
    /\ UsualCommand(command)
    /\ \E k \in 1..Len(command) : OccursAt(command, k, <<"o","v","e","r","l","a","y","=">>)
    /\ result.is_valid

\* C9: whichever timeout policy the caller means, the verdict of a dry run that
\* timed out follows it: invalid with the timed-out message under the strict
\* policy, valid under the lenient one.
C9_TimeoutFollowsPolicy ==
    \A policy \in {"strict", "lenient"} :
        (Returned /\ raised = "TimeoutExpired") =>
            IF policy = "strict"
            THEN /\ ~result.is_valid
                 /\ result.error_message = Some(TimedOutMessage(timeout))
            ELSE result.is_valid

\* C10: in every verdict returned, error_message is None exactly when is_valid
\* is True.
C10_MessageIffInvalid ==
    Returned => (result.error_message = None <=> result.is_valid)

\* t is s without the whitespace at its two ends
IsTrimOf(t, s) ==
    \E i \in 0..Len(s), j \in 0..Len(s) :
        /\ i + j <= Len(s)
        /\ \A k \in 1..i : s[k] \in Whitespace
        /\ \A k \in (Len(s) - j + 1)..Len(s) : s[k] \in Whitespace
        /\ t = SubSeq(s, i + 1, Len(s) - j)
        /\ t # << >> => (t[1] \notin Whitespace /\ t[Len(t)] \notin Whitespace)

\* C11 as first stated: when the dry run has exited with a status other than 0
\* the verdict is invalid and its message is the captured stderr, trimmed, and
\* nothing else.
C11_MessageIsStderr ==
    (Returned /\ returncode > 0) =>
        /\ ~result.is_valid
        /\ result.error_message # None
        /\ IsTrimOf(result.error_message[1], stderr)

\* C11 as amended: when the dry run has exited with a status other than 0 the
\* verdict is invalid and its message is the text "FFmpeg command validation
\* failed with error: " followed by the captured stderr, trimmed; the third
\* element is the cleaned command.
C11_MessageIsPrefixedStderr ==
    (Returned /\ returncode > 0) =>
        /\ ~result.is_valid
        /\ result.cleaned_command = cleaned_command
        /\ Len(result.error_message) = 1
        /\ LET message == result.error_message[1]
           IN  /\ message[1] = "FFmpeg command validation failed with error: "
               /\ IsTrimOf(Tail(message), stderr)

\* C11 happens: the dry run has failed and has written a text with whitespace
\* at both ends
C11_Witness ==
    /\ Returned
    /\ returncode > 0
    /\ stderr # << >>
    /\ stderr[1] \in Whitespace
    /\ stderr[Len(stderr)] \in Whitespace
    /\ ~result.is_valid

\* the verdict is a triple of a truth value, a message or None, and a command
IsTriple(r) ==
    /\ DOMAIN r = {"is_valid", "error_message", "cleaned_command"}
    /\ r.is_valid \in BOOLEAN
    /\ r.error_message = None \/ Len(r.error_message) = 1
    /\ r.cleaned_command \in {command, cleaned_command}

\* C12: validate_ffmpeg_filter_complex never raises: whatever the command, and
\* whether the process exits, times out or subprocess.run raises, a call that
\* has ended has returned a triple, and an exception other than the timeout has
\* become an invalid verdict whose message carries the exception's text.
C12_NeverRaises ==
    /\ pc \in {"called", "running", "done"}
    /\ Returned =>
        /\ IsTriple(result)
        /\ raised = "Exception" =>
            /\ ~result.is_valid
            /\ result.error_message # None
            /\ \E e \in ExceptionTexts :
                   result.error_message[1] = <<"Command validation error: ">> \o e

\* C12 happens: for a command that shlex cannot split, subprocess.run has
\* raised, and the call has returned
C12_Witness ==
    /\ Returned
    /\ raised = "Exception"
    /\ ~ShlexSplit(cleaned_command).ok
    /\ ~result.is_valid

\* C13: prepare_ffmpeg_test_command returns, for every string, a command that
\* holds the null-output marker "-f null": also for a string whose quotes
\* shlex cannot split and for a string with no output token.
C13_AlwaysNullOutput ==
    pc = "prepared" =>
        \E k \in 1..Len(test_command) :
            OccursAt(test_command, k, <<"-","f"," ","n","u","l","l">>)

\* C13 happens: the function has returned for a string with an unclosed
\* quotation, which had no null output
C13_Witness ==
    /\ pc = "prepared"
    /\ ~ShlexSplit(command).ok
    /\ ~\E k \in 1..Len(command) :
           OccursAt(command, k, <<"-","f"," ","n","u","l","l">>)
    /\ test_command # << >>

OverwriteFlag == <<"-","y">>

\* the number of -y tokens among tokens
CountOverwriteFlags(tokens) ==
    Cardinality({i \in 1..Len(tokens) : tokens[i] = OverwriteFlag})

\* C14: for a command of the usual shape that holds -y once as a token of its
\* own, wherever it stands, the cleaned command returned holds -y exactly
\* once.
C14_OverwriteFlagNotDuplicated ==
    (/\ Returned
     /\ UsualCommand(command)
     /\ CountOverwriteFlags(TokensOf(command)) = 1) =>
        /\ ShlexSplit(result.cleaned_command).ok
        /\ CountOverwriteFlags(TokensOf(result.cleaned_command)) = 1

\* C15: the -y insertion of validate_ffmpeg_filter_complex is idempotent:
\* applied to what it has returned, for the command of the call whatever it
\* is, and for the cleaned command the call has made, it changes nothing.
C15_OverwriteStepIdempotent ==
    /\ CleanedCommand(CleanedCommand(command)) = CleanedCommand(command)
    /\ pc # "called" /\ spawned > 0 => CleanedCommand(cleaned_command) = cleaned_command

\* C15 happens: the call has inserted -y into its command
C15_Witness ==
    /\ pc = "running"
    /\ cleaned_command # command
    /\ cleaned_command = CleanedCommand(command)

\* a command that shlex can split, whose first token is the tool name in some
\* spelling of its letters, followed by -i in.mp4
UsualCommandAnyCase(s) ==
    /\ ShlexSplit(s).ok
    /\ LET tokens == TokensOf(s)
       IN  /\ Len(tokens) >= 3
           /\ Lower(tokens[1]) = Ffmpeg
           /\ tokens[2] = InputFlag
           /\ tokens[3] = InputPath

\* C16: for a command that has passed the two checks and holds no -y token,
\* whatever the spelling of the tool name, the cleaned command is the command
\* with -y inserted as the token right after the tool name.
C16_OverwriteFlagAfterTool ==
    (/\ Returned
     /\ spawned > 0
     /\ UsualCommandAnyCase(command)
     /\ CountOverwriteFlags(TokensOf(command)) = 0) =>
        LET tokens == TokensOf(command)
        IN  /\ ShlexSplit(result.cleaned_command).ok
            /\ TokensOf(result.cleaned_command) =
                   <<tokens[1], OverwriteFlag>> \o Tail(tokens)

\* C17: what the overlay tool or the effects tool returns is the cleaned
\* command of the run's last validation, and that validation returned
\* is_valid = True; after a validation that returned is_valid = False a
\* ModelRetry is raised and nothing is returned.
C17_ReturnedIsValidated ==
    agent \in {"overlay", "effects"} =>
        /\ pc = "returned" =>
            /\ result.is_valid
            /\ tool_result = Some(result.cleaned_command)
        /\ pc # "returned" => tool_result = None
        /\ pc \in {"retry", "failed"} => ~result.is_valid

\* C17 happens: an answer was sent back, the next one was found valid, and the
\* tool has returned it with -y inserted
C17_Witness ==
    /\ agent = "overlay"
    /\ pc = "returned"
    /\ retries > 0
    /\ result.is_valid
    /\ tool_result = Some(result.cleaned_command)
    /\ result.cleaned_command # command

\* the agents built with result_retries=3
ThreeRetryAgents == {"overlay", "effects", "compression"}

\* C18: in a run of the overlay, effects or compression agent the output is
\* sent back to the model at most result_retries = 3 times, so that at most 4
\* answers are validated; every ModelRetry counts one against the retries; when
\* they are used up the run fails instead of asking again; and every run ends,
\* with a command returned or with the failure.
C18_RetriesBoundedAndRunEnds ==
    /\ [](agent \in ThreeRetryAgents =>
            /\ pc # "failed" => retries <= ResultRetries
            /\ pc = "failed" => retries = ResultRetries + 1
            /\ spawned <= ResultRetries + 1)
    /\ [][(agent \in ThreeRetryAgents /\ pc = "retry") =>
            /\ retries' = retries + 1
            /\ retries = ResultRetries => pc' = "failed"
            /\ retries < ResultRetries => pc' = "model"]_vars
    /\ <>RunEnded

\* C18 happens: four answers of the compression agent were dry-run and sent
\* back, and the run has failed
C18_Witness ==
    /\ agent = "compression"
    /\ pc = "failed"
    /\ retries = ResultRetries + 1
    /\ spawned = ResultRetries + 1
    /\ tool_result = None

\* C19: every command a filter tool (overlay, effects, audio, text,
\* transition, sync, compression) returns has been through a dry run against a
\* null output: when the tool has returned, a dry run was made in the run, its
\* test command had the null output, and what is returned is the command that
\* dry run was made for.
C19_ReturnedWasDryRun ==
    (agent \in Agents /\ pc = "returned") =>
        /\ spawned > 0
        /\ Contains(test_command, NullOutputMarker)
        /\ tool_result = Some(cleaned_command)

\* "-y ", the text the validator inserts
OverwriteFlagText == <<"-", "y", " ">>

\* the flags and the null output that only the test command is given
DryRunMarks ==
    { <<"-","h","i","d","e","_","b","a","n","n","e","r">>,
      <<"-","l","o","g","l","e","v","e","l">>,
      NullOutputMarker }

\* t is s with "-y " put in at one place and nothing else changed
IsWithOverwriteFlagInserted(t, s) ==
    /\ Len(t) = Len(s) + Len(OverwriteFlagText)
    /\ \E k \in 0..Len(s) :
        /\ OccursAt(t, k + 1, OverwriteFlagText)
        /\ SubSeq(t, 1, k) = SubSeq(s, 1, k)
        /\ SubSeq(t, k + Len(OverwriteFlagText) + 1, Len(t)) = SubSeq(s, k + 1, Len(s))

\* C20: the third element validate_ffmpeg_filter_complex returns is never the
\* dry-run form: it is the command as given, or the command with "-y " put in
\* and nothing else changed; after a structural failure (no dry run made) it is
\* the command as given; and it has no -hide_banner, no -loglevel and no
\* "-f null" that the command did not have.
C20_ReturnedCommandIsNotTestCommand ==
    Returned =>
        /\ \/ result.cleaned_command = command
           \/ IsWithOverwriteFlagInserted(result.cleaned_command, command)
        /\ spawned = 0 => result.cleaned_command = command
        /\ \A mark \in DryRunMarks :
              Contains(result.cleaned_command, mark) => Contains(command, mark)

\* C20 happens: a dry run was made of a test command with the null output and
\* the two flags, and what is returned is the command with only -y put in
C20_Witness ==
    /\ Returned
    /\ spawned > 0
    /\ result.is_valid
    /\ result.cleaned_command # command
    /\ result.cleaned_command # test_command
    /\ \A mark \in DryRunMarks :
          Contains(test_command, mark) /\ ~Contains(result.cleaned_command, mark)

(***************************************************************************)
(* The tools that make intermediate media: transcript_video writes the     *)
(* audio to a temporary WAV file, detect_object_bounds a frame to a        *)
(* temporary directory.                                                    *)
(***************************************************************************)
\* what transcript_video is called with and finds: whether DEEPGRAM_API_KEY is
\* set, whether the video exists, whether output_srt_path, language and
\* translate are given
TranscriptArgs ==
    [api_key : BOOLEAN, video_found : BOOLEAN, output_srt_path : BOOLEAN,
     language : BOOLEAN, translate : BOOLEAN]

\* detect_object_bounds checks none of its arguments
DetectArgs ==
    { [api_key |-> FALSE, video_found |-> v, output_srt_path |-> FALSE,
       language |-> FALSE, translate |-> FALSE] : v \in BOOLEAN }

\* the state of the other parts while such a tool runs
NotTemp == <<validatorVars, sessionVars, concVars>>

NotTempIdle == ValidatorIdle /\ SessionIdle /\ ConcIdle

TempInit ==
    /\ NotTempIdle
    /\ \/ fn = "transcript_video" /\ fargs \in TranscriptArgs
       \/ fn = "detect_object_bounds" /\ fargs \in DetectArgs
    /\ fpc = "start"
    /\ temp_exists = FALSE
    /\ freturned = ""

\* the tool returns r from where it is
Returns(r) ==
    /\ freturned' = r
    /\ fpc' = "returned"
    /\ UNCHANGED <<fn, fargs>>
    /\ UNCHANGED NotTemp

\* transcript_video: no API key, or no video file: returns before anything is
\* created
TvReturnEarly ==
    /\ fn = "transcript_video"
    /\ fpc = "start"
    /\ ~fargs.api_key \/ ~fargs.video_found
    /\ Returns(IF ~fargs.api_key THEN "Error: DEEPGRAM_API_KEY environment variable not set"
               ELSE "Error: Video file not found")
    /\ UNCHANGED temp_exists

\* tempfile.NamedTemporaryFile(suffix=".wav", delete=False): the file stays
\* when the with block is left
TvCreateTemp ==
    /\ fn = "transcript_video"
    /\ fpc = "start"
    /\ fargs.api_key /\ fargs.video_found
    /\ temp_exists' = TRUE
    /\ fpc' = "created"
    /\ UNCHANGED <<fn, fargs, freturned>>
    /\ UNCHANGED NotTemp

\* subprocess.run(ffmpeg_cmd, check=True) returns
TvExtractOk ==
    /\ fn = "transcript_video"
    /\ fpc = "created"
    /\ fpc' = "extracted"
    /\ UNCHANGED <<fn, fargs, temp_exists, freturned>>
    /\ UNCHANGED NotTemp

\* ffmpeg exits with a status other than 0: CalledProcessError, the handler
\* unlinks the file
TvExtractNonzero ==
    /\ fn = "transcript_video"
    /\ fpc = "created"
    /\ temp_exists' = FALSE
    /\ Returns("Error extracting audio")

\* subprocess.run raises something else (FileNotFoundError when there is no
\* ffmpeg binary): only the handler of the whole function catches it
TvExtractRaises ==
    /\ fn = "transcript_video"
    /\ fpc = "created"
    /\ Returns("Error creating transcript")
    /\ UNCHANGED temp_exists

\* the audio is transcribed; finally: the file is unlinked
TvTranscribeOk ==
    /\ fn = "transcript_video"
    /\ fpc = "extracted"
    /\ temp_exists' = FALSE
    /\ fpc' = "transcribed"
    /\ UNCHANGED <<fn, fargs, freturned>>
    /\ UNCHANGED NotTemp

\* open or transcribe_file raises; finally: the file is unlinked
TvTranscribeRaises ==
    /\ fn = "transcript_video"
    /\ fpc = "extracted"
    /\ temp_exists' = FALSE
    /\ Returns("Error creating transcript")

\* the rest: conversion to SRT, the translation when asked for, the SRT saved
TvFinish ==
    /\ fn = "transcript_video"
    /\ fpc = "transcribed"
    /\ \E r \in {"Successfully created SRT subtitle file", "Error creating transcript"}
                \cup (IF fargs.translate /\ fargs.language
                      THEN {"Transcription successful but translation failed"}
                      ELSE {}) :
          Returns(r)
    /\ UNCHANGED temp_exists

\* with tempfile.TemporaryDirectory() as temp_dir
DoCreateTemp ==
    /\ fn = "detect_object_bounds"
    /\ fpc = "start"
    /\ temp_exists' = TRUE
    /\ fpc' = "created"
    /\ UNCHANGED <<fn, fargs, freturned>>
    /\ UNCHANGED NotTemp

\* subprocess.run(ffmpeg_cmd, timeout=30) returns with status 0
DoExtractOk ==
    /\ fn = "detect_object_bounds"
    /\ fpc = "created"
    /\ fpc' = "extracted"
    /\ UNCHANGED <<fn, fargs, temp_exists, freturned>>
    /\ UNCHANGED NotTemp

\* a status other than 0, TimeoutExpired, or another exception: the function
\* returns from inside the with block, which removes the directory
DoExtractFails ==
    /\ fn = "detect_object_bounds"
    /\ fpc = "created"
    /\ temp_exists' = FALSE
    /\ \E r \in {"Error extracting frame", "Error: Frame extraction timed out",
                 "Error: Unexpected error during object detection"} :
          Returns(r)

\* the frame is missing, cannot be loaded, the detection fails, or it succeeds:
\* every return leaves the with block
DoFinish ==
    /\ fn = "detect_object_bounds"
    /\ fpc = "extracted"
    /\ temp_exists' = FALSE
    /\ \E r \in {"Error: Frame file not created", "Error: Failed to load frame image",
                 "Error during object detection", "Object Detection Results"} :
          Returns(r)

TempNext ==
    \/ TvReturnEarly
    \/ TvCreateTemp
    \/ TvExtractOk
    \/ TvExtractNonzero
    \/ TvExtractRaises
    \/ TvTranscribeOk
    \/ TvTranscribeRaises
    \/ TvFinish
    \/ DoCreateTemp
    \/ DoExtractOk
    \/ DoExtractFails
    \/ DoFinish

TempSpec == TempInit /\ [][TempNext]_vars

(***************************************************************************)
(* start.py: the interactive session, _run_ffmpeg_command and              *)
(* _execute_plan, with the progress manager of common/progress.py.         *)
(***************************************************************************)
\* the requests one session is followed for
MaxRequests == 2

\* the tasks of a plan
MaxTasks == 2

\* the kinds of task a plan is made of
TaskNames == {"trim", "overlay"}

\* the plans _execute_plan may be given: their tasks
Plans == UNION {[1..n -> TaskNames] : n \in 0..MaxTasks}

\* the fields of ExecutionPlan, which plan_video_editing returns
ExecutionPlanFields ==
    {"plan_id", "description", "input_video", "output_video", "tasks",
     "current_task_index"}

\* how subprocess.run ends in _run_ffmpeg_command
RunOutcomes == {"exit 0", "exit nonzero", "TimeoutExpired", "Exception"}

progressVars == <<progress, entered, made>>

planVars == <<tasks, task_i, sent>>

cmdVars == <<ncmd, cmd, confirmed, declined, executed, success>>

\* the state of the other parts while start.py runs
NotSession == <<validatorVars, tempVars, concVars>>

NotSessionIdle == ValidatorIdle /\ TempIdle /\ ConcIdle

SessionInit ==
    /\ NotSessionIdle
    /\ \/ entry = "_interactive_session" /\ spc = "prompt" /\ tasks = << >>
       \/ entry = "_execute_plan" /\ spc = "loop" /\ tasks \in Plans
    /\ requests = 0
    /\ planner_ok = FALSE
    /\ plan = None
    /\ task_i = 0
    /\ sent = << >>
    /\ ncmd = 0
    /\ cmd = 0
    /\ confirmed = {}
    /\ declined = {}
    /\ executed = << >>
    /\ success = FALSE
    /\ progress = None
    /\ entered = << >>
    /\ made = 0

\* progress_context up to the yield: a Progress is made, stored in _progress
\* and entered
EnterContext ==
    /\ made' = made + 1
    /\ progress' = Some(made + 1)
    /\ entered' = Append(entered, made + 1)

\* progress_context after the yield, normally or by an exception: the Progress
\* is left and, finally, _progress = None
LeaveContext ==
    /\ progress' = None
    /\ entered' = SubSeq(entered, 1, Len(entered) - 1)
    /\ made' = made

\* ProgressManager.get_progress()
get_progress == progress

\* the prompt: quit, or a request
SessionPrompt ==
    /\ entry = "_interactive_session"
    /\ spc = "prompt"
    /\ \/ spc' = "ended" /\ UNCHANGED requests
       \/ requests < MaxRequests /\ requests' = requests + 1 /\ spc' = "request"
    /\ UNCHANGED <<entry, planner_ok, plan, planVars, cmdVars, progressVars>>
    /\ UNCHANGED NotSession

\* plan = None; with progress_manager.progress_context():
SessionEnterContext ==
    /\ spc = "request"
    /\ plan' = None
    /\ planner_ok' = FALSE
    /\ EnterContext
    /\ spc' = "planning"
    /\ UNCHANGED <<entry, requests, planVars, cmdVars>>
    /\ UNCHANGED NotSession

\* plan_video_editing returns an ExecutionPlan; plan_response.output is read
\* from it: without such a field AttributeError is raised and the handler of
\* the planner's failures takes over
PlannerReturns ==
    /\ spc = "planning"
    /\ planner_ok' = TRUE
    /\ IF "output" \in ExecutionPlanFields
       THEN \E p \in Plans : plan' = Some(p) /\ spc' = "planned"
       ELSE plan' = plan /\ spc' = "fallback"
    /\ UNCHANGED <<entry, requests, planVars, cmdVars, progressVars>>
    /\ UNCHANGED NotSession

\* plan_video_editing raises
PlannerRaises ==
    /\ spc = "planning"
    /\ spc' = "fallback"
    /\ UNCHANGED <<entry, requests, planner_ok, plan, planVars, cmdVars, progressVars>>
    /\ UNCHANGED NotSession

\* the fallback: main_agent.run returns a command, which is displayed
DirectRunReturns ==
    /\ spc = "fallback"
    /\ ncmd' = ncmd + 1
    /\ cmd' = ncmd + 1
    /\ spc' = "confirm direct"
    /\ UNCHANGED <<entry, requests, planner_ok, plan, planVars, confirmed,
                   declined, executed, success, progressVars>>
    /\ UNCHANGED NotSession

\* main_agent.run raises inside the handler: the with block is left and the
\* session's last handler prints the error
DirectRunRaises ==
    /\ spc = "fallback"
    /\ LeaveContext
    /\ spc' = "prompt"
    /\ UNCHANGED <<entry, requests, planner_ok, plan, planVars, cmdVars>>
    /\ UNCHANGED NotSession

\* DirectConfirm with the command run whatever the answer
DirectConfirmRunsAnyway ==
    /\ spc = "confirm direct"
    /\ \/ confirmed' = confirmed \cup {cmd} /\ UNCHANGED declined
       \/ declined' = declined \cup {cmd} /\ UNCHANGED confirmed
    /\ spc' = "run"
    /\ UNCHANGED <<entry, requests, planner_ok, plan, planVars, ncmd, cmd,
                   executed, success, progressVars>>
    /\ UNCHANGED NotSession

\* confirm_user("Execute this FFmpeg command?"): _run_ffmpeg_command is called
\* for True; for False the command is skipped and continue leaves the with
\* block
DirectConfirm ==
    /\ spc = "confirm direct"
    /\ \/ /\ confirmed' = confirmed \cup {cmd}
          /\ spc' = "run"
          /\ UNCHANGED <<declined, progressVars>>
       \/ /\ declined' = declined \cup {cmd}
          /\ LeaveContext
          /\ spc' = "prompt"
          /\ UNCHANGED confirmed
    /\ UNCHANGED <<entry, requests, planner_ok, plan, planVars, ncmd, cmd,
                   executed, success>>
    /\ UNCHANGED NotSession

\* _run_ffmpeg_command: with progress_manager.progress_context():
RunEnterContext ==
    /\ spc = "run"
    /\ EnterContext
    /\ spc' = "subprocess"
    /\ UNCHANGED <<entry, requests, planner_ok, plan, planVars, cmdVars>>
    /\ UNCHANGED NotSession

\* entering the new Progress raises while another is displayed: finally
\* _progress = None, and _run_ffmpeg_command returns False from its handler
RunContextRefused ==
    /\ spc = "run"
    /\ entered # << >>
    /\ made' = made + 1
    /\ progress' = None
    /\ success' = FALSE
    /\ spc' = "ran"
    /\ UNCHANGED <<entry, requests, planner_ok, plan, planVars, ncmd, cmd,
                   confirmed, declined, executed, entered>>
    /\ UNCHANGED NotSession

\* subprocess.run(command, shell=True, timeout=300) is made and ends; the with
\* block is left; True is returned for status 0, False otherwise
RunSubprocess ==
    /\ spc = "subprocess"
    /\ executed' = Append(executed, cmd)
    /\ \E outcome \in RunOutcomes : success' = (outcome = "exit 0")
    /\ LeaveContext
    /\ spc' = "ran"
    /\ UNCHANGED <<entry, requests, planner_ok, plan, planVars, ncmd, cmd,
                   confirmed, declined>>
    /\ UNCHANGED NotSession

\* back in the fallback: continue leaves the session's with block
DirectContinue ==
    /\ entry = "_interactive_session"
    /\ spc = "ran"
    /\ LeaveContext
    /\ spc' = "prompt"
    /\ UNCHANGED <<entry, requests, planner_ok, plan, planVars, cmdVars>>
    /\ UNCHANGED NotSession

\* PlanNextTask with the loop going on after the user declined to continue
PlanNextTaskAfterCancel ==
    /\ entry = "_execute_plan"
    /\ spc \in {"loop", "cancelled"}
    /\ task_i < Len(tasks)
    /\ task_i' = task_i + 1
    /\ sent' = Append(sent, task_i + 1)
    /\ \/ ncmd' = ncmd + 1 /\ cmd' = ncmd + 1 /\ spc' = "confirm task"
       \/ UNCHANGED <<ncmd, cmd>> /\ spc' = "ended"
    /\ UNCHANGED <<entry, requests, planner_ok, plan, tasks, confirmed,
                   declined, executed, success, progressVars>>
    /\ UNCHANGED NotSession

\* _execute_plan: the next task of the list is sent to main_agent, which
\* returns its command or raises
PlanNextTask ==
    /\ entry = "_execute_plan"
    /\ spc = "loop"
    /\ task_i < Len(tasks)
    /\ task_i' = task_i + 1
    /\ sent' = Append(sent, task_i + 1)
    /\ \/ ncmd' = ncmd + 1 /\ cmd' = ncmd + 1 /\ spc' = "confirm task"
       \/ UNCHANGED <<ncmd, cmd>> /\ spc' = "ended"
    /\ UNCHANGED <<entry, requests, planner_ok, plan, tasks, confirmed,
                   declined, executed, success, progressVars>>
    /\ UNCHANGED NotSession

\* the list is used up: "All tasks completed", return history
PlanFinish ==
    /\ entry = "_execute_plan"
    /\ spc = "loop"
    /\ task_i = Len(tasks)
    /\ spc' = "ended"
    /\ UNCHANGED <<entry, requests, planner_ok, plan, planVars, cmdVars, progressVars>>
    /\ UNCHANGED NotSession

\* confirm_user("Execute this FFmpeg command for task i?")
PlanConfirm ==
    /\ spc = "confirm task"
    /\ \/ confirmed' = confirmed \cup {cmd} /\ spc' = "run" /\ UNCHANGED declined
       \/ declined' = declined \cup {cmd} /\ spc' = "loop" /\ UNCHANGED confirmed
    /\ UNCHANGED <<entry, requests, planner_ok, plan, planVars, ncmd, cmd,
                   executed, success, progressVars>>
    /\ UNCHANGED NotSession

\* back in _execute_plan: the next task after a success, the question whether
\* to continue after a failure
PlanAfterRun ==
    /\ entry = "_execute_plan"
    /\ spc = "ran"
    /\ spc' = IF success THEN "loop" ELSE "confirm continue"
    /\ UNCHANGED <<entry, requests, planner_ok, plan, planVars, cmdVars, progressVars>>
    /\ UNCHANGED NotSession

\* confirm_user("Continue with remaining tasks despite this failure?"): for
\* False, return history
PlanConfirmContinue ==
    /\ spc = "confirm continue"
    /\ \E continue_plan \in BOOLEAN :
          spc' = IF continue_plan THEN "loop" ELSE "cancelled"
    /\ UNCHANGED <<entry, requests, planner_ok, plan, planVars, cmdVars, progressVars>>
    /\ UNCHANGED NotSession

SessionNext ==
    \/ SessionPrompt
    \/ SessionEnterContext
    \/ PlannerReturns
    \/ PlannerRaises
    \/ DirectRunReturns
    \/ DirectRunRaises
    \/ DirectConfirm
    \/ RunEnterContext
    \/ RunContextRefused
    \/ RunSubprocess
    \/ DirectContinue
    \/ PlanNextTask
    \/ PlanFinish
    \/ PlanConfirm
    \/ PlanAfterRun
    \/ PlanConfirmContinue

SessionSpec == SessionInit /\ [][SessionNext]_vars

(***************************************************************************)
(* validate_ffmpeg_filter_complex called by several callers at once: each  *)
(* call has its own locals; the processes share the file system.           *)
(***************************************************************************)
\* the commands the concurrent callers validate
ConcCommands ==
    { <<"l","s">>,
      Join(<<Ffmpeg, <<"-","i">> \o <<" ">> \o InputPath,
             <<"o","u","t",".","m","p","4">> >>, <<" ">>),
      Join(<<Ffmpeg, <<"-","i">> \o <<" ">> \o InputPath,
             <<"o","u","t",".","m","p","4">>, <<"o","2",".","m","p","4">> >>,
           <<" ">>) }

\* the state of the other parts while the concurrent calls run
NotConc == <<validatorVars, tempVars, sessionVars>>

NotConcIdle == ValidatorIdle /\ TempIdle /\ SessionIdle

ConcInit ==
    /\ NotConcIdle
    /\ ConcIdle

\* the files the process of a test command opens for writing: the tokens
\* that are paths and are not the value of a flag
WrittenBy(test) ==
    LET split == ShlexSplit(test)
    IN  IF split.ok
        THEN {split.tokens[j] : j \in {k \in 2..Len(split.tokens) :
                  /\ split.tokens[k] \in OutputPaths
                  /\ ~IsFlag(split.tokens[k - 1])}}
        ELSE {}

\* caller c calls validate_ffmpeg_filter_complex(command, timeout)
ConcCall(c) ==
    /\ calls[c].pc \in {"idle", "done"}
    /\ calls[c].n < MaxCalls
    /\ \E cmd0 \in ConcCommands, t \in Timeouts :
        calls' = [calls EXCEPT ![c] =
                    [NoCall EXCEPT !.pc = "called", !.n = calls[c].n + 1,
                                   !.command = cmd0, !.timeout = t]]
    /\ UNCHANGED written
    /\ UNCHANGED NotConc

\* the call returns at one of its two checks
ConcReject(c) ==
    /\ calls[c].pc = "called"
    /\ \/ /\ ~StartsWithFfmpeg(calls[c].command)
          /\ calls' = [calls EXCEPT ![c].pc = "done",
                          ![c].result = Verdict(FALSE, Some(MustStartMessage),
                                                calls[c].command)]
       \/ /\ StartsWithFfmpeg(calls[c].command)
          /\ MissingInputPattern(calls[c].command)
          /\ calls' = [calls EXCEPT ![c].pc = "done",
                          ![c].result = Verdict(FALSE, Some(MissingInputMessage),
                                                calls[c].command)]
    /\ UNCHANGED written
    /\ UNCHANGED NotConc

\* both checks passed: the test command is handed to subprocess.run
ConcRunDryRun(c) ==
    /\ calls[c].pc = "called"
    /\ StartsWithFfmpeg(calls[c].command)
    /\ ~MissingInputPattern(calls[c].command)
    /\ calls' = [calls EXCEPT ![c].pc = "running",
                    ![c].cleaned_command = CleanedCommand(calls[c].command),
                    ![c].test_command =
                        prepare_ffmpeg_test_command(CleanedCommand(calls[c].command))]
    /\ UNCHANGED written
    /\ UNCHANGED NotConc

\* the process of the call opens the files its command names as outputs
ConcProcessWrites(c) ==
    /\ calls[c].pc = "running"
    /\ WrittenBy(calls[c].test_command) # {}
    /\ written' = written \cup WrittenBy(calls[c].test_command)
    /\ UNCHANGED calls
    /\ UNCHANGED NotConc

\* the process exits with a status other than 0
ConcExitNonzero(c) ==
    /\ calls[c].pc = "running"
    /\ \E code \in NonzeroCodes, err \in StderrSamples :
        calls' = [calls EXCEPT ![c].pc = "done", ![c].returncode = code,
                     ![c].stderr = err,
                     ![c].result = Verdict(FALSE, Some(FailedMessage(Strip(err))),
                                           calls[c].cleaned_command)]
    /\ UNCHANGED written
    /\ UNCHANGED NotConc

\* the process exits with status 0
ConcExitZero(c) ==
    /\ calls[c].pc = "running"
    /\ calls' = [calls EXCEPT ![c].pc = "done", ![c].returncode = 0,
                    ![c].result =
                        IF LacksFilterComplex(calls[c].cleaned_command)
                        THEN Verdict(FALSE, Some(FilterComplexMessage),
                                     calls[c].cleaned_command)
                        ELSE Verdict(TRUE, None, calls[c].cleaned_command)]
    /\ UNCHANGED written
    /\ UNCHANGED NotConc

\* subprocess.run raises TimeoutExpired
ConcTimeoutExpired(c) ==
    /\ calls[c].pc = "running"
    /\ calls' = [calls EXCEPT ![c].pc = "done", ![c].raised = "TimeoutExpired",
                    ![c].result = Verdict(TRUE,
                                          Some(TimedOutMessage(calls[c].timeout)),
                                          calls[c].cleaned_command)]
    /\ UNCHANGED written
    /\ UNCHANGED NotConc

\* subprocess.run raises another exception; str(e) is kept where the text of
\* stderr would be
ConcOtherException(c) ==
    /\ calls[c].pc = "running"
    /\ \E e \in ExceptionTexts :
        calls' = [calls EXCEPT ![c].pc = "done", ![c].raised = "Exception",
                     ![c].stderr = e,
                     ![c].result = Verdict(FALSE, Some(ErrorMessage(e)),
                                           calls[c].cleaned_command)]
    /\ UNCHANGED written
    /\ UNCHANGED NotConc

ConcNext ==
    \/ \E c \in Callers : ConcCall(c)
    \/ \E c \in Callers : ConcReject(c)
    \/ \E c \in Callers : ConcRunDryRun(c)
    \/ \E c \in Callers : ConcProcessWrites(c)
    \/ \E c \in Callers : ConcExitNonzero(c)
    \/ \E c \in Callers : ConcExitZero(c)
    \/ \E c \in Callers : ConcTimeoutExpired(c)
    \/ \E c \in Callers : ConcOtherException(c)

ConcSpec == ConcInit /\ [][ConcNext]_vars

(***************************************************************************)
(* C21 .. C30                                                              *)
(***************************************************************************)
\* C21: after validate_ffmpeg_filter_complex has returned from a dry run that
\* timed out, no process the call spawned is still running.
C21_NoProcessLeftAfterTimeout ==
    (Returned /\ raised = "TimeoutExpired") => alive = {}

\* the verdict the source gives for a command, a timeout and the outcome of
\* the call's own subprocess (none when the call returned at a check)
VerdictFor(cmd0, t, exception, code, err) ==
    IF ~StartsWithFfmpeg(cmd0)
    THEN Verdict(FALSE, Some(MustStartMessage), cmd0)
    ELSE IF MissingInputPattern(cmd0)
    THEN Verdict(FALSE, Some(MissingInputMessage), cmd0)
    ELSE IF exception = "TimeoutExpired"
    THEN Verdict(TRUE, Some(TimedOutMessage(t)), CleanedCommand(cmd0))
    ELSE IF exception = "Exception"
    THEN Verdict(FALSE, Some(ErrorMessage(err)), CleanedCommand(cmd0))
    ELSE IF code # 0
    THEN Verdict(FALSE, Some(FailedMessage(Strip(err))), CleanedCommand(cmd0))
    ELSE IF LacksFilterComplex(CleanedCommand(cmd0))
    THEN Verdict(FALSE, Some(FilterComplexMessage), CleanedCommand(cmd0))
    ELSE Verdict(TRUE, None, CleanedCommand(cmd0))

\* the verdict of every call that has returned is the one its own command,
\* timeout and subprocess outcome give
VerdictsFromOwnInputs ==
    \A c \in Callers : calls[c].pc = "done" =>
        calls[c].result = VerdictFor(calls[c].command, calls[c].timeout,
                                     calls[c].raised, calls[c].returncode,
                                     calls[c].stderr)

\* two calls with equal inputs and equal subprocess outcomes have equal
\* verdicts
EqualInputsEqualVerdicts ==
    \A c, d \in Callers :
        (/\ calls[c].pc = "done" /\ calls[d].pc = "done"
         /\ calls[c].command = calls[d].command
         /\ calls[c].timeout = calls[d].timeout
         /\ calls[c].raised = calls[d].raised
         /\ calls[c].returncode = calls[d].returncode
         /\ calls[c].stderr = calls[d].stderr)
        => calls[c].result = calls[d].result

\* C22: validation calls are independent: under any interleaving of concurrent
\* calls and after any earlier calls, the verdict of a call depends only on
\* its own command, its timeout and the outcome of its own subprocess; equal
\* inputs and outcomes give equal verdicts; and no call reads or writes shared
\* mutable state (no file that other calls or the user share is written).
C22_CallsAreIndependent ==
    /\ VerdictsFromOwnInputs
    /\ EqualInputsEqualVerdicts
    /\ written = {}

\* C23: the temporary file or directory made for intermediate media is gone
\* when the tool has returned, whatever the exit path.
C23_TempRemovedOnEveryExit ==
    fpc = "returned" => ~temp_exists

\* what validate_ffmpeg_filter_complex decides for the outcome the inline
\* validator has met: accepted after a timeout, and after an exit with status
\* 0 unless -filter_complex is missing for overlay= or zoompan=
CommonDecision ==
    IF raised = "TimeoutExpired" THEN TRUE
    ELSE IF returncode = 0 THEN ~LacksFilterComplex(cleaned_command)
    ELSE FALSE

\* C24: the inline validators of the sync and compression agents build the
\* dry-run command prepare_ffmpeg_test_command builds, and accept exactly
\* when validate_ffmpeg_filter_complex accepts, for every command and every
\* outcome of the process.
C24_InlineValidatorsAsCommon ==
    agent \in InlineValidatorAgents =>
        /\ pc = "dry run" =>
              test_command = prepare_ffmpeg_test_command(cleaned_command)
        /\ pc \in {"retry", "returned"} => ((pc = "returned") <=> CommonDecision)

\* C25: the sync agent's output validator accepts every command that passes the
\* structural checks and whose dry run exits with status 0, with or without
\* -filter_complex: the command (with -y added if needed) is returned and no
\* ModelRetry is raised.
C25_SyncAcceptsExitZero ==
    (agent = "sync" /\ returncode = 0 /\ pc \in {"retry", "returned"}) =>
        /\ pc = "returned"
        /\ raised = ""
        /\ tool_result = Some(cleaned_command)

\* C26: for a command that passed the structural checks, the dry-run command
\* still begins with the tool: the backward scan does not take the first
\* token, the tool name, for the output file.
C26_ToolNameKeptInTestCommand ==
    (pc \in {"running", "done"} /\ spawned > 0) =>
        /\ StartsWithFfmpeg(test_command)
        /\ LET split == ShlexSplit(FlaggedCommand(cleaned_command))
           IN  split.ok => output_file_index(split.tokens) # 1

\* C27: after any sequence of progress_context entries and exits, the nested
\* one of _run_ffmpeg_command and exits by exception included, get_progress()
\* returns the active Progress (the one entered last and not yet left) while
\* a progress_context is entered, and None exactly when none is.
C27_GetProgressIsTheActiveContext ==
    /\ entered # << >> => get_progress = Some(entered[Len(entered)])
    /\ entered = << >> <=> get_progress = None

\* C28: a command is executed (subprocess.run is called for it in
\* _run_ffmpeg_command) only after confirm_user returned True for that very
\* command, and never when the user declined it, in the fallback of the
\* session and in _execute_plan.
C28_ExecutedOnlyAfterConfirmation ==
    \A k \in 1..Len(executed) :
        executed[k] \in confirmed /\ executed[k] \notin declined

\* C28: in one session a confirmed command was executed and a declined one
\* was not.
C28_Witness ==
    /\ entry = "_interactive_session"
    /\ executed # << >>
    /\ declined # {}
    /\ spc = "prompt"

\* C29: _execute_plan sends the tasks to the agent in list order, each at most
\* once, and once an execution failed and the user declined to continue, no
\* later task is sent or executed.
C29_TasksInOrderAndStopOnDecline ==
    [][ /\ sent = [k \in 1..task_i |-> k]
        /\ task_i <= Len(tasks)
        /\ sent' \in {sent, Append(sent, Len(sent) + 1)}
        /\ spc = "cancelled" => (sent' = sent /\ executed' = executed) ]_vars

\* C29: the first task of a plan of two failed, the user declined to continue,
\* and the second task was never sent.
C29_Witness ==
    /\ entry = "_execute_plan"
    /\ spc = "cancelled"
    /\ Len(tasks) = MaxTasks
    /\ sent = <<1>>
    /\ executed # << >>
    /\ ~success

\* C30: in the session, when plan_video_editing returned without raising, the
\* plan is displayed, confirmed and executed; the fallback is taken only when
\* the planner itself failed.
C30_FallbackOnlyWhenPlannerFails ==
    spc \in {"fallback", "confirm direct"} => ~planner_ok

=============================================================================
